---- MODULE Spec2Model ----
(***************************************************************************)
(* PathMix (src/index.js): path helpers over node:path, node:url, node:os. *)
(* Strings are sequences of one-character strings, so that startsWith,     *)
(* replace, join, resolve, dirname and fileURLToPath are computed          *)
(* character by character the way the runtime computes them.  The model is *)
(* of a POSIX build of Node.js (separator "/").                            *)
(***************************************************************************)
EXTENDS Integers, Sequences, FiniteSets, TLC

(***************************************************************************)
(* Bounds of the model.                                                    *)
(***************************************************************************)
\* longest argument list of one call
MaxArgs == 2
\* deepest application call stack below a PathMix call
MaxDepth == 2

(***************************************************************************)
(* JavaScript values: a string, a non-string, or a thrown error.           *)
(*   t  the type tag           s  the characters of a string               *)
(*   e  the error's class/code m  the parts of the error's message         *)
(***************************************************************************)
Str(s) == [t |-> "string", s |-> s, e |-> "", m |-> <<>>]
Undefined == [t |-> "undefined", s |-> <<>>, e |-> "", m |-> <<>>]
Null == [t |-> "null", s |-> <<>>, e |-> "", m |-> <<>>]
Num == [t |-> "number", s |-> <<>>, e |-> "", m |-> <<>>]
Throw(e, m) == [t |-> "throw", s |-> <<>>, e |-> e, m |-> m]
IsStr(v) == v.t = "string"
IsThrow(v) == v.t = "throw"
\* !value of JavaScript: undefined, null and the empty string are falsy
Falsy(v) == v.t \in {"undefined", "null"} \/ (IsStr(v) /\ v.s = <<>>)

(***************************************************************************)
(* String primitives.                                                      *)
(***************************************************************************)
StartsWith(s, p) == Len(s) >= Len(p) /\ SubSeq(s, 1, Len(p)) = p
Drop(s, n) == SubSeq(s, n + 1, Len(s))
Last(s) == s[Len(s)]
Front(s) == SubSeq(s, 1, Len(s) - 1)

\* s.split("/")
RECURSIVE SplitAcc(_, _, _)
SplitAcc(s, cur, acc) ==
  IF s = <<>> THEN Append(acc, cur)
  ELSE IF Head(s) = "/" THEN SplitAcc(Tail(s), <<>>, Append(acc, cur))
  ELSE SplitAcc(Tail(s), Append(cur, Head(s)), acc)
Split(s) == SplitAcc(s, <<>>, <<>>)

\* segs.join("/")
RECURSIVE JoinSegs(_)
JoinSegs(segs) ==
  IF segs = <<>> THEN <<>>
  ELSE IF Len(segs) = 1 THEN segs[1]
  ELSE segs[1] \o <<"/">> \o JoinSegs(Tail(segs))

DotDot == <<".", ".">>
Dot == <<".">>

(***************************************************************************)
(* node:path (posix).                                                      *)
(***************************************************************************)
\* normalizeString(path, allowAboveRoot, "/"): resolves "." and ".." and
\* drops empty segments; the result has no leading or trailing separator.
RECURSIVE NormSegs(_, _, _)
NormSegs(segs, res, allowAboveRoot) ==
  IF segs = <<>> THEN res
  ELSE LET g == Head(segs) IN
    IF g = <<>> \/ g = Dot THEN NormSegs(Tail(segs), res, allowAboveRoot)
    ELSE IF g = DotDot THEN
      IF res # <<>> /\ Last(res) # DotDot
        THEN NormSegs(Tail(segs), Front(res), allowAboveRoot)
      ELSE IF allowAboveRoot
        THEN NormSegs(Tail(segs), Append(res, DotDot), allowAboveRoot)
      ELSE NormSegs(Tail(segs), res, allowAboveRoot)
    ELSE NormSegs(Tail(segs), Append(res, g), allowAboveRoot)
NormalizeString(path, allowAboveRoot) ==
  JoinSegs(NormSegs(Split(path), <<>>, allowAboveRoot))

\* path.isAbsolute
IsAbsolute(path) == Len(path) > 0 /\ path[1] = "/"

\* path.normalize
Normalize(path) ==
  IF path = <<>> THEN Dot
  ELSE LET abs == IsAbsolute(path)
           trailing == Last(path) = "/"
           p == NormalizeString(path, ~abs)
       IN IF p = <<>> THEN (IF abs THEN <<"/">>
                            ELSE IF trailing THEN <<".", "/">> ELSE Dot)
          ELSE LET q == IF trailing THEN Append(p, "/") ELSE p
               IN IF abs THEN <<"/">> \o q ELSE q

\* validateString: the TypeError a non-string path argument raises
InvalidArgType == Throw("ERR_INVALID_ARG_TYPE", <<>>)

\* the non-empty arguments joined by "/" (the loop of path.join)
RECURSIVE JoinRaw(_)
JoinRaw(strs) ==
  IF strs = <<>> THEN <<>>
  ELSE LET rest == JoinRaw(Tail(strs)) IN
    IF Head(strs) = <<>> THEN rest
    ELSE IF rest = <<>> THEN Head(strs)
    ELSE Head(strs) \o <<"/">> \o rest

\* path.join(...args) over JavaScript values
PathJoin(args) ==
  IF args = <<>> THEN Str(Dot)
  ELSE IF \E i \in 1..Len(args) : ~IsStr(args[i]) THEN InvalidArgType
  ELSE LET joined == JoinRaw([i \in 1..Len(args) |-> args[i].s])
       IN IF joined = <<>> THEN Str(Dot) ELSE Str(Normalize(joined))

\* the loop of path.resolve: from the last argument to the first, then the
\* working directory, until the accumulated path is absolute.  Only the
\* arguments the loop visits are validated.
RECURSIVE ResolveLoop(_, _, _, _)
ResolveLoop(args, i, resolvedPath, workdir) ==
  LET v == IF i >= 1 THEN args[i] ELSE Str(workdir) IN
    IF ~IsStr(v) THEN InvalidArgType
    ELSE LET np == IF v.s = <<>> THEN resolvedPath
                   ELSE v.s \o <<"/">> \o resolvedPath
             abs == v.s # <<>> /\ IsAbsolute(v.s)
         IN IF abs \/ i = 0 THEN Str(np)
            ELSE ResolveLoop(args, i - 1, np, workdir)

\* path.resolve(...args) over JavaScript values
PathResolve(args, workdir) ==
  LET r == ResolveLoop(args, Len(args), <<>>, workdir) IN
    IF IsThrow(r) THEN r
    ELSE LET abs == IsAbsolute(r.s)
             p == NormalizeString(r.s, ~abs)
         IN IF abs THEN Str(<<"/">> \o p)
            ELSE IF p = <<>> THEN Str(Dot) ELSE Str(p)

\* the scan of path.dirname: the index (1-based) of the separator that ends
\* the directory part, 0 when there is none
RECURSIVE DirnameEnd(_, _, _)
DirnameEnd(path, i, matchedSlash) ==
  IF i < 2 THEN 0
  ELSE IF path[i] = "/"
    THEN (IF ~matchedSlash THEN i ELSE DirnameEnd(path, i - 1, TRUE))
  ELSE DirnameEnd(path, i - 1, FALSE)

\* path.dirname of a string
PathDirname(path) ==
  IF path = <<>> THEN Dot
  ELSE LET hasRoot == path[1] = "/"
           end == DirnameEnd(path, Len(path), TRUE)
       IN IF end = 0 THEN (IF hasRoot THEN <<"/">> ELSE Dot)
          ELSE IF hasRoot /\ end = 2 THEN <<"/", "/">>
          ELSE SubSeq(path, 1, end - 1)

(***************************************************************************)
(* node:url fileURLToPath (posix) and the WHATWG parse of a file: URL.     *)
(***************************************************************************)
FilePrefix == <<"f", "i", "l", "e", ":", "/", "/">>
Localhost == <<"l", "o", "c", "a", "l", "h", "o", "s", "t">>

\* the characters of s before its first "/"
RECURSIVE UpToSlash(_)
UpToSlash(s) ==
  IF s = <<>> \/ Head(s) = "/" THEN <<>> ELSE <<Head(s)>> \o UpToSlash(Tail(s))

\* "." and ".." as the URL parser reads them, percent-encoded dots included
IsSingleDotSeg(g) == g \in {<<".">>, <<"%", "2", "e">>, <<"%", "2", "E">>}
IsDoubleDotSeg(g) ==
  \E a, b \in {<<".">>, <<"%", "2", "e">>, <<"%", "2", "E">>} : g = a \o b

\* the path percent-encode set, restricted to the model's alphabet
RECURSIVE UrlEncode(_)
UrlEncode(s) ==
  IF s = <<>> THEN <<>>
  ELSE IF Head(s) = " " THEN <<"%", "2", "0">> \o UrlEncode(Tail(s))
  ELSE <<Head(s)>> \o UrlEncode(Tail(s))

\* the URL parser's path state: dot segments are resolved as the path is
\* read, an empty segment is kept, a final "." or ".." leaves a trailing "/"
RECURSIVE UrlPathSegs(_, _)
UrlPathSegs(segs, path) ==
  IF segs = <<>> THEN path
  ELSE LET g == Head(segs)
           isLast == Len(segs) = 1
       IN IF IsDoubleDotSeg(g) THEN
            LET popped == IF path = <<>> THEN path ELSE Front(path)
            IN UrlPathSegs(Tail(segs), IF isLast THEN Append(popped, <<>>) ELSE popped)
          ELSE IF IsSingleDotSeg(g) THEN
            UrlPathSegs(Tail(segs), IF isLast THEN Append(path, <<>>) ELSE path)
          ELSE UrlPathSegs(Tail(segs), Append(path, UrlEncode(g)))

\* new URL(ref) of a string that starts with "file://": host and pathname
UrlHost(ref) ==
  LET h == UpToSlash(Drop(ref, Len(FilePrefix))) IN IF h = Localhost THEN <<>> ELSE h
UrlPathname(ref) ==
  LET afterHost == Drop(ref, Len(FilePrefix) + Len(UpToSlash(Drop(ref, Len(FilePrefix)))))
      segs == IF afterHost = <<>> THEN << <<>> >> ELSE Tail(Split(afterHost))
  IN <<"/">> \o JoinSegs(UrlPathSegs(segs, <<>>))

\* the percent escapes of the model's alphabet that decodeURIComponent reads
PctChar(a, b) ==
  CASE a = "2" /\ b = "0" -> " "
    [] a = "2" /\ b = "5" -> "%"
    [] a = "2" /\ b \in {"e", "E"} -> "."
    [] a = "2" /\ b \in {"f", "F"} -> "/"
    [] OTHER -> ""

\* decodeURIComponent: <<>> paired with FALSE when an escape is malformed
RECURSIVE PctDecode(_)
PctDecode(s) ==
  IF s = <<>> THEN [ok |-> TRUE, s |-> <<>>]
  ELSE IF Head(s) = "%" THEN
    IF Len(s) < 3 \/ PctChar(s[2], s[3]) = "" THEN [ok |-> FALSE, s |-> <<>>]
    ELSE LET r == PctDecode(Drop(s, 3))
         IN [ok |-> r.ok, s |-> IF r.ok THEN <<PctChar(s[2], s[3])>> \o r.s ELSE <<>>]
  ELSE LET r == PctDecode(Tail(s))
       IN [ok |-> r.ok, s |-> IF r.ok THEN <<Head(s)>> \o r.s ELSE <<>>]

\* pathname includes "%2f" or "%2F"
RECURSIVE HasEncodedSlash(_)
HasEncodedSlash(s) ==
  /\ Len(s) >= 3
  /\ \/ (s[1] = "%" /\ s[2] = "2" /\ s[3] \in {"f", "F"})
     \/ HasEncodedSlash(Tail(s))

\* fileURLToPath(ref) of a string that starts with "file://"
fileURLToPath(ref) ==
  IF UrlHost(ref) # <<>> THEN Throw("ERR_INVALID_FILE_URL_HOST", <<>>)
  ELSE IF HasEncodedSlash(UrlPathname(ref)) THEN Throw("ERR_INVALID_FILE_URL_PATH", <<>>)
  ELSE LET d == PctDecode(UrlPathname(ref))
       IN IF d.ok THEN Str(d.s) ELSE Throw("URIError", <<>>)

\* the file: URL the ESM loader gives a module at absolute path f, which is
\* both its import.meta.url and the file name of its stack frames
RECURSIVE PathEncode(_)
PathEncode(s) ==
  IF s = <<>> THEN <<>>
  ELSE IF Head(s) = "%" THEN <<"%", "2", "5">> \o PathEncode(Tail(s))
  ELSE IF Head(s) = " " THEN <<"%", "2", "0">> \o PathEncode(Tail(s))
  ELSE <<Head(s)>> \o PathEncode(Tail(s))
FileURL(f) == FilePrefix \o PathEncode(f)

(***************************************************************************)
(* String.prototype.replace(/^token/, replacement): the replacement string *)
(* is read for the patterns $$, $&, $` and $' (the regular expressions of  *)
(* #expandTokens have no capture group, so $1.. and $< stay literal).      *)
(***************************************************************************)
RECURSIVE GetSubstitution(_, _, _, _)
GetSubstitution(repl, matched, before, after) ==
  IF repl = <<>> THEN <<>>
  ELSE IF Head(repl) = "$" /\ Len(repl) >= 2 /\ repl[2] \in {"$", "&", "`", "'"} THEN
    LET c == repl[2]
        ins == CASE c = "$" -> <<"$">>
                 [] c = "&" -> matched
                 [] c = "`" -> before
                 [] c = "'" -> after
    IN ins \o GetSubstitution(Drop(repl, 2), matched, before, after)
  ELSE <<Head(repl)>> \o GetSubstitution(Tail(repl), matched, before, after)

\* s.replace(/^token/, repl) where s starts with token
ReplacePrefix(s, token, repl) ==
  GetSubstitution(repl, token, <<>>, Drop(s, Len(token))) \o Drop(s, Len(token))

(***************************************************************************)
(* The call stack.  A frame is the function that runs and the file name    *)
(* CallSite.getFileName() reports for it; the newest frame comes first.    *)
(***************************************************************************)
Frame(fn, file) == [fn |-> fn, file |-> file]
\* the file name of PathMix's own frames
IndexJs == Str(<<"/", "l", "i", "b", "/", "p", "a", "t", "h", "m", "i", "x", "/", "i", "n", "d", "e", "x", ".", "j", "s">>)

\* Error.captureStackTrace(err, constructorOpt) as read through the
\* structured hook: the frames below the newest call of constructorOpt, at
\* most Error.stackTraceLimit of them; none when constructorOpt is not on the
\* stack.
RECURSIVE FramesBelow(_, _)
FramesBelow(frames, fn) ==
  IF frames = <<>> THEN <<>>
  ELSE IF Head(frames).fn = fn THEN Tail(frames)
  ELSE FramesBelow(Tail(frames), fn)
CaptureUnskipped(frames, constructorOpt, limit) ==
  SubSeq(Tail(frames), 1, IF limit < Len(frames) - 1 THEN limit ELSE Len(frames) - 1)
CaptureStackTrace(frames, constructorOpt, limit) ==
  LET below == FramesBelow(frames, constructorOpt)
  IN SubSeq(below, 1, IF limit < Len(below) THEN limit ELSE Len(below))

(***************************************************************************)
(* PathMix.  Every public method yields an outcome:                        *)
(*   ret        the value returned, or the error thrown                    *)
(*   inspected  whether #getCallerFile was entered                         *)
(*   hooks      the values Error.prepareStackTrace was given, in order     *)
(*   hook       the value of Error.prepareStackTrace when the call ends    *)
(***************************************************************************)
\* (_, stack) => stack
Structured == "structured"
Done(ret, hook) == [ret |-> ret, inspected |-> FALSE, hooks |-> <<>>, hook |-> hook]

\* PathMix.#getCallerFile(methodRef), entered from the public method
\* methodRef with the application's frames appStack below it
getCallerFile_noConvert(methodRef, appStack, limit, hook) ==
  LET frames == <<Frame("PathMix.#getCallerFile", IndexJs), Frame(methodRef, IndexJs)>> \o appStack
      stack == CaptureStackTrace(frames, methodRef, limit)
      fileName == IF stack = <<>> THEN Undefined ELSE stack[1].file
  IN [ret |-> IF Falsy(fileName) THEN Null ELSE fileName,
      inspected |-> TRUE, hooks |-> <<Structured, hook>>, hook |-> hook]
getCallerFile_noRestore(methodRef, appStack, limit, hook) ==
  LET frames == <<Frame("PathMix.#getCallerFile", IndexJs), Frame(methodRef, IndexJs)>> \o appStack
      stack == CaptureStackTrace(frames, methodRef, limit)
      fileName == IF stack = <<>> THEN Undefined ELSE stack[1].file
  IN [ret |-> IF Falsy(fileName) THEN Null
              ELSE IF StartsWith(fileName.s, FilePrefix) THEN fileURLToPath(fileName.s)
              ELSE fileName,
      inspected |-> TRUE, hooks |-> <<Structured>>, hook |-> Structured]
getCallerFile(methodRef, appStack, limit, hook) ==
  LET frames == <<Frame("PathMix.#getCallerFile", IndexJs), Frame(methodRef, IndexJs)>> \o appStack
      stack == CaptureStackTrace(frames, methodRef, limit)
      fileName == IF stack = <<>> THEN Undefined ELSE stack[1].file
  IN [ret |-> IF Falsy(fileName) THEN Null
              ELSE IF StartsWith(fileName.s, FilePrefix) THEN fileURLToPath(fileName.s)
              ELSE fileName,
      inspected |-> TRUE, hooks |-> <<Structured, hook>>, hook |-> hook]

\* PathMix.#isFileUrl
isFileUrl_never(value) == FALSE
isFileUrl(value) == IsStr(value) /\ StartsWith(value.s, FilePrefix)

HomeToken == <<"$", "H", "O", "M", "E">>
Tilde == <<"~">>

\* PathMix.#expandTokens
expandTokens(segment, homedir) ==
  IF ~IsStr(segment) THEN segment
  ELSE IF StartsWith(segment.s, HomeToken) THEN Str(ReplacePrefix(segment.s, HomeToken, homedir))
  ELSE IF StartsWith(segment.s, Tilde) THEN Str(ReplacePrefix(segment.s, Tilde, homedir))
  ELSE segment

\* segments.length ? join(base, ...segments) : base
JoinOnto(base, segments) ==
  IF Len(segments) > 0 THEN PathJoin(<<Str(base)>> \o segments) ELSE Str(base)

\* the Error of a failed detection; its message in three parts
CouldNotDetect(method) ==
  Throw("Error", <<method, ": could not detect caller file.", " Pass import.meta.url explicitly.">>)
\* if (!callerFile) throw ...
NotDetected_never(callerFile) == FALSE
NotDetected(callerFile) == Falsy(callerFile)

\* PathMix.home, PathMix.cwd, PathMix.tmp
home_alwaysJoin(segments, homedir, hook) == Done(PathJoin(<<Str(homedir)>> \o segments), hook)
home(segments, homedir, hook) == Done(JoinOnto(homedir, segments), hook)
cwd(segments, workdir, hook) == Done(JoinOnto(workdir, segments), hook)
tmp(segments, tmpdir, hook) == Done(JoinOnto(tmpdir, segments), hook)

\* PathMix.dir
dir_fallsBack(args, appStack, limit, hook) ==
  LET p == IF Len(args) > 0 /\ isFileUrl(args[1]) THEN fileURLToPath(args[1].s) ELSE Null
      c == getCallerFile("PathMix.dir", appStack, limit, hook)
  IN IF IsStr(p) THEN Done(JoinOnto(PathDirname(p.s), Tail(args)), hook)
     ELSE IF IsThrow(c.ret) THEN c
     ELSE IF NotDetected(c.ret) THEN [c EXCEPT !.ret = CouldNotDetect("PathMix.dir()")]
     ELSE [c EXCEPT !.ret = JoinOnto(PathDirname(c.ret.s), args)]
dir(args, appStack, limit, hook) ==
  IF Len(args) > 0 /\ isFileUrl(args[1]) THEN
    LET p == fileURLToPath(args[1].s)
    IN IF IsThrow(p) THEN Done(p, hook)
       ELSE Done(JoinOnto(PathDirname(p.s), Tail(args)), hook)
  ELSE
    LET c == getCallerFile("PathMix.dir", appStack, limit, hook)
    IN IF IsThrow(c.ret) THEN c
       ELSE IF NotDetected(c.ret) THEN [c EXCEPT !.ret = CouldNotDetect("PathMix.dir()")]
       ELSE [c EXCEPT !.ret = JoinOnto(PathDirname(c.ret.s), args)]

\* PathMix.file
file(args, appStack, limit, hook) ==
  IF Len(args) > 0 /\ isFileUrl(args[1]) THEN Done(fileURLToPath(args[1].s), hook)
  ELSE
    LET c == getCallerFile("PathMix.file", appStack, limit, hook)
    IN IF IsThrow(c.ret) THEN c
       ELSE IF NotDetected(c.ret) THEN [c EXCEPT !.ret = CouldNotDetect("PathMix.file()")]
       ELSE c

\* PathMix.resolve
resolve_noExpand(segments, homedir, workdir, hook) == Done(PathResolve(segments, workdir), hook)
resolve(segments, homedir, workdir, hook) ==
  LET expanded == [i \in 1..Len(segments) |-> expandTokens(segments[i], homedir)]
  IN Done(PathResolve(expanded, workdir), hook)

\* PathMix.__dirname
dirname_asFile(args, appStack, limit, hook) == file(args, appStack, limit, hook)
dirname__(args, appStack, limit, hook) ==
  IF Len(args) > 0 /\ isFileUrl(args[1]) THEN
    LET p == fileURLToPath(args[1].s)
    IN IF IsThrow(p) THEN Done(p, hook) ELSE Done(Str(PathDirname(p.s)), hook)
  ELSE
    LET c == getCallerFile("PathMix.__dirname", appStack, limit, hook)
    IN IF IsThrow(c.ret) THEN c
       ELSE IF NotDetected(c.ret) THEN [c EXCEPT !.ret = CouldNotDetect("PathMix.__dirname()")]
       ELSE [c EXCEPT !.ret = Str(PathDirname(c.ret.s))]

\* PathMix.__filename
filename__(args, appStack, limit, hook) ==
  IF Len(args) > 0 /\ isFileUrl(args[1]) THEN Done(fileURLToPath(args[1].s), hook)
  ELSE
    LET c == getCallerFile("PathMix.__filename", appStack, limit, hook)
    IN IF IsThrow(c.ret) THEN c
       ELSE IF NotDetected(c.ret) THEN [c EXCEPT !.ret = CouldNotDetect("PathMix.__filename()")]
       ELSE c

(***************************************************************************)
(* The inputs of the model.                                                *)
(***************************************************************************)
\* source files of the application: /project/src/utils.js and "/p/a b.js"
UtilsJs == <<"/", "p", "r", "o", "j", "e", "c", "t", "/", "s", "r", "c", "/", "u", "t", "i", "l", "s", ".", "j", "s">>
SpacedJs == <<"/", "p", "/", "a", " ", "b", ".", "j", "s">>
SourceFiles == {UtilsJs, SpacedJs}
\* "[eval]", the file name of a frame of code run with node -e
EvalName == <<"[", "e", "v", "a", "l", "]">>

\* what getFileName() reports for an application frame: the plain path of a
\* CommonJS module, the file: URL of an ES module, null (a native or builtin
\* frame), the empty string, or a name that is no path
FrameFiles ==
  { Str(UtilsJs), Str(SpacedJs), Str(FileURL(SpacedJs)),
    Null, Str(<<>>), Str(EvalName) }

\* explicit references a caller passes: the import.meta.url of a source file,
\* and a file: URL with a host
HostRef == <<"f", "i", "l", "e", ":", "/", "/", "h", "o", "s", "t", "/", "x", ".", "j", "s">>
Refs == {Str(FileURL(f)) : f \in SourceFiles} \cup {Str(HostRef)}
\* first arguments that are no explicit reference although they name a file:
\* the plain path of a source file (a CommonJS __filename), a URL of another
\* scheme, and a file: URL written without the two slashes
HttpRef == <<"h", "t", "t", "p", ":", "/", "/", "h", "/", "x", ".", "j", "s">>
OneSlashRef == <<"f", "i", "l", "e", ":", "/", "x", ".", "j", "s">>
NonRefs == {Str(SpacedJs), Str(HttpRef), Str(OneSlashRef)}

SegData == <<"d", "a", "t", "a">>
SegSeed == <<"s", "e", "e", "d", ".", "j", "s", "o", "n">>
\* path segments passed to dir
DirSegs == {Str(SegData), Str(SegSeed), Num}
\* path segments passed to home, cwd and tmp
BaseSegs == {Str(SegData), Str(DotDot), Str(<<>>), Str(<<"/", "e", "t", "c">>), Str(<<"a", "/">>), Num}

\* the directories the operating system reports
Homes ==
  { <<"/", "h", "o", "m", "e", "/", "u", "s", "e", "r">>,
    <<"/", "h", "o", "m", "e", "/", "u", "s", "e", "r", "/">>,
    <<"/", "h", "o", "m", "e", "/", "/", "u", "s", "e", "r">>,
    <<"/">>,
    <<"/", "h", "$", "$">> }
Cwds == { <<"/", "p", "r", "o", "j", "e", "c", "t">>, <<"/">> }
Tmps == { <<"/", "t", "m", "p">>, <<"/", "v", "a", "r", "/", "t", "m", "p">> }

\* suffixes X of resolve("~/X")
Suffixes == { <<"f", "o", "o">>, <<"f", "o", "o", "/">>, <<".", "s", "s", "h", "/", "c", "o", "n", "f", "i", "g">> }
\* segments passed to resolve under home directory h
ResolveSegs(h) ==
  {Str(Tilde \o <<"/">> \o x) : x \in Suffixes}
    \cup {Str(HomeToken \o <<"/">> \o x) : x \in Suffixes}
    \cup {Str(h \o <<"/">> \o x) : x \in Suffixes}
    \cup { Str(<<"/", "e", "t", "c">>), Str(<<"b">>), Str(DotDot),
           Str(<<"a", "~", "b">>), Str(<<"~", "$", "H", "O", "M", "E", "~">>),
           Str(<<"$", "H", "O", "M", "E", "~", "$", "H", "O", "M", "E">>), Num }

\* the sequences over S of length at most n
SeqsUpTo(S, n) == UNION {[1..k -> S] : k \in 0..n}

(***************************************************************************)
(* State.                                                                  *)
(***************************************************************************)
VARIABLES
  osHomedir,          \* os.homedir()
  processCwd,         \* process.cwd()
  osTmpdir,           \* os.tmpdir()
  stackTraceLimit,    \* Error.stackTraceLimit
  prepareStackTrace,  \* Error.prepareStackTrace
  callStack,          \* the application's frames, newest first
  last                \* the PathMix call the application has just made

vars == <<osHomedir, processCwd, osTmpdir, stackTraceLimit, prepareStackTrace, callStack, last>>
env == <<osHomedir, processCwd, osTmpdir, stackTraceLimit>>

NoCall == [op |-> "none", args |-> <<>>, ret |-> Undefined, inspected |-> FALSE, hooks |-> <<>>]
Called(op, args, out) ==
  [op |-> op, args |-> args, ret |-> out.ret, inspected |-> out.inspected, hooks |-> out.hooks]

Hooks == {"undefined", "userHook"}
\* Error.stackTraceLimit: no frame is captured, or V8's default
StackTraceLimits == {0, 10}

\* every environment and every entry frame
Init ==
  /\ osHomedir \in Homes
  /\ processCwd \in Cwds
  /\ osTmpdir \in Tmps
  /\ stackTraceLimit \in StackTraceLimits
  /\ prepareStackTrace \in Hooks
  /\ callStack \in {<<Frame("app", f)>> : f \in FrameFiles}
  /\ last = NoCall

\* the application calls one of its own functions, defined in file f
AppCall(f) ==
  /\ last.op = "none"
  /\ Len(callStack) < MaxDepth
  /\ callStack' = <<Frame("app", f)>> \o callStack
  /\ UNCHANGED <<env, prepareStackTrace, last>>

\* the newest application function returns
AppReturn ==
  /\ last.op = "none"
  /\ Len(callStack) > 1
  /\ callStack' = Tail(callStack)
  /\ UNCHANGED <<env, prepareStackTrace, last>>

\* the application takes the value, or catches the error, and goes on
AppResume ==
  /\ last.op # "none"
  /\ last' = NoCall
  /\ UNCHANGED <<env, prepareStackTrace, callStack>>

\* a call of a PathMix method from the newest application frame
Finish(op, args, out) ==
  /\ last' = Called(op, args, out)
  /\ prepareStackTrace' = out.hook
  /\ UNCHANGED <<env, callStack>>

\* the argument lists of the model
DirArgs ==
  SeqsUpTo(Refs \cup DirSegs, MaxArgs)
    \cup {<<a>> \o s : a \in NonRefs, s \in SeqsUpTo({Str(SegData)}, MaxArgs - 1)}
RefArgs == SeqsUpTo(Refs \cup DirSegs \cup NonRefs, 1)
BaseArgs == SeqsUpTo(BaseSegs, MaxArgs)
ResolveArgs == SeqsUpTo(ResolveSegs(osHomedir), MaxArgs)

CallHome ==
  /\ last.op = "none"
  /\ \E segments \in BaseArgs :
       Finish("home", segments, home(segments, osHomedir, prepareStackTrace))
CallCwd ==
  /\ last.op = "none"
  /\ \E segments \in BaseArgs :
       Finish("cwd", segments, cwd(segments, processCwd, prepareStackTrace))
CallTmp ==
  /\ last.op = "none"
  /\ \E segments \in BaseArgs :
       Finish("tmp", segments, tmp(segments, osTmpdir, prepareStackTrace))
CallDir ==
  /\ last.op = "none"
  /\ \E args \in DirArgs :
       Finish("dir", args, dir(args, callStack, stackTraceLimit, prepareStackTrace))
CallFile ==
  /\ last.op = "none"
  /\ \E args \in RefArgs :
       Finish("file", args, file(args, callStack, stackTraceLimit, prepareStackTrace))
CallDirname ==
  /\ last.op = "none"
  /\ \E args \in RefArgs :
       Finish("__dirname", args, dirname__(args, callStack, stackTraceLimit, prepareStackTrace))
CallFilename ==
  /\ last.op = "none"
  /\ \E args \in RefArgs :
       Finish("__filename", args, filename__(args, callStack, stackTraceLimit, prepareStackTrace))
CallResolve ==
  /\ last.op = "none"
  /\ \E segments \in ResolveArgs :
       Finish("resolve", segments, resolve(segments, osHomedir, processCwd, prepareStackTrace))

\* the application makes the call it has just made once more, from the same
\* call site
CallAgain ==
  /\ last.op \in {"dir", "file", "__dirname", "__filename"}
  /\ Finish(last.op, last.args,
            CASE last.op = "dir" ->
                   dir(last.args, callStack, stackTraceLimit, prepareStackTrace)
              [] last.op = "file" ->
                   file(last.args, callStack, stackTraceLimit, prepareStackTrace)
              [] last.op = "__dirname" ->
                   dirname__(last.args, callStack, stackTraceLimit, prepareStackTrace)
              [] last.op = "__filename" ->
                   filename__(last.args, callStack, stackTraceLimit, prepareStackTrace))

\* the caller-location methods, from every call stack
NextLocate ==
  \/ \E f \in FrameFiles : AppCall(f)
  \/ AppReturn
  \/ AppResume
  \/ CallDir
  \/ CallFile
  \/ CallDirname
  \/ CallFilename

\* the well-known base paths
NextBase ==
  \/ AppResume
  \/ CallHome
  \/ CallCwd
  \/ CallTmp

\* token expansion
NextResolve ==
  \/ AppResume
  \/ CallResolve

Next == NextLocate \/ NextBase \/ NextResolve

\* one environment, every stack
InitLocate ==
  /\ Init
  /\ osHomedir = <<"/", "h", "o", "m", "e", "/", "u", "s", "e", "r">>
  /\ processCwd = <<"/", "p", "r", "o", "j", "e", "c", "t">>
  /\ osTmpdir = <<"/", "t", "m", "p">>
\* every environment, one stack
InitBase ==
  /\ Init
  /\ stackTraceLimit = 10
  /\ prepareStackTrace = "undefined"
  /\ callStack = <<Frame("app", Str(UtilsJs))>>

Spec == Init /\ [][Next]_vars
SpecLocate == InitLocate /\ [][NextLocate]_vars
\* the caller-location methods, each call possibly made again
NextRepeat ==
  \/ NextLocate
  \/ CallAgain
SpecRepeat == InitLocate /\ [][NextRepeat]_vars
SpecBase == InitBase /\ [][NextBase]_vars
\* every home and working directory, one stack
InitResolve ==
  /\ InitBase
  /\ osTmpdir = <<"/", "t", "m", "p">>
SpecResolve == InitResolve /\ [][NextResolve]_vars

(***************************************************************************)
(* Properties.                                                             *)
(***************************************************************************)
LocateOps == {"dir", "file", "__dirname", "__filename"}
\* the first argument is a string that starts with "file://"
ExplicitFirst(args) ==
  /\ Len(args) > 0
  /\ args[1].t = "string"
  /\ Len(args[1].s) >= 7
  /\ SubSeq(args[1].s, 1, 7) = <<"f", "i", "l", "e", ":", "/", "/">>
\* the last call was a caller-location method without an explicit reference
AutoCall == last.op \in LocateOps /\ ~ExplicitFirst(last.args)
\* the frame that invoked the public method
CallerFrame == callStack[1]
\* the stack read yields no usable source file name
NoUsableName ==
  \/ stackTraceLimit = 0
  \/ CallerFrame.file.t \in {"null", "undefined"}
  \/ (CallerFrame.file.t = "string" /\ CallerFrame.file.s = <<>>)
MethodName(op) ==
  CASE op = "dir" -> "PathMix.dir()"
    [] op = "file" -> "PathMix.file()"
    [] op = "__dirname" -> "PathMix.__dirname()"
    [] op = "__filename" -> "PathMix.__filename()"

\* C1: dir, file, __dirname and __filename, called without a file://
\* reference when the stack read yields no usable file name (nothing
\* captured, or a null, undefined or empty file name), throw an Error whose
\* message names the method called and says to pass import.meta.url; they
\* return nothing.
C1_FailsLoudly ==
  (AutoCall /\ NoUsableName) =>
    /\ last.ret.t = "throw"
    /\ last.ret.e = "Error"
    /\ Len(last.ret.m) = 3
    /\ last.ret.m[1] = MethodName(last.op)
    /\ last.ret.m[3] = " Pass import.meta.url explicitly."
C1_Witness ==
  /\ AutoCall /\ last.op = "__filename"
  /\ stackTraceLimit = 10
  /\ CallerFrame.file = Str(<<>>)
  /\ last.ret.t = "throw"

\* the source files whose frame the caller's frame is, as a plain path
\* (CommonJS) or as a file: URL (ESM)
CallerSources ==
  {f \in SourceFiles : CallerFrame.file \in {Str(f), Str(FileURL(f))}}

\* C2 as claimed: from every source file F, reported as a file: URL or as
\* a plain path, and for every segment list S, dir(...S) returns what
\* dir(fileURL(F), ...S) returns, and file() returns what file(fileURL(F))
\* returns.
C2_AgreeForEverySegmentList ==
  \A f \in CallerSources :
    /\ (last.op = "dir" /\ stackTraceLimit > 0) =>
         last.ret = dir(<<Str(FileURL(f))>> \o last.args, callStack,
                        stackTraceLimit, prepareStackTrace).ret
    /\ (last.op = "file" /\ last.args = <<>> /\ stackTraceLimit > 0) =>
         last.ret = file(<<Str(FileURL(f))>>, callStack,
                         stackTraceLimit, prepareStackTrace).ret

\* C2, amended: the same, for every segment list S whose first element is
\* not a string starting with "file://" (such a first element is itself
\* taken as the explicit reference).
C2_AgreeForSegments ==
  \A f \in CallerSources :
    /\ (last.op = "dir" /\ ~ExplicitFirst(last.args) /\ stackTraceLimit > 0) =>
         last.ret = dir(<<Str(FileURL(f))>> \o last.args, callStack,
                        stackTraceLimit, prepareStackTrace).ret
    /\ (last.op = "file" /\ last.args = <<>> /\ stackTraceLimit > 0) =>
         last.ret = file(<<Str(FileURL(f))>>, callStack,
                         stackTraceLimit, prepareStackTrace).ret
C2_Witness ==
  /\ last.op = "dir" /\ last.args = <<Str(SegData)>>
  /\ stackTraceLimit > 0
  /\ CallerFrame.file = Str(FileURL(SpacedJs))
  /\ last.ret = Str(<<"/", "p", "/", "d", "a", "t", "a">>)

\* what fileURLToPath gives for the explicit reference: its decoded plain
\* path, or the decoder's error
Decoded(args) == fileURLToPath(args[1].s)
ExplicitResult(op, args) ==
  LET d == Decoded(args) IN
    IF d.t = "throw" \/ op \in {"file", "__filename"} THEN d
    ELSE IF op = "__dirname" \/ Len(args) = 1 THEN Str(PathDirname(d.s))
    ELSE PathJoin(<<Str(PathDirname(d.s))>> \o Tail(args))

\* C3: with a first argument that is a string starting with "file://", dir,
\* file, __dirname and __filename never enter the stack read and never
\* assign Error.prepareStackTrace; file and __filename give the decoded
\* path of the reference, __dirname its directory, dir that directory,
\* joined with the remaining arguments when there are any (a reference the
\* decoder rejects fails with the decoder's error).  Nothing of the call
\* stack enters the result.
C3_ExplicitNeverInspects ==
  (last.op \in LocateOps /\ ExplicitFirst(last.args)) =>
    /\ ~last.inspected
    /\ last.hooks = <<>>
    /\ last.ret = ExplicitResult(last.op, last.args)
C3_Witness ==
  /\ last.op = "dir"
  /\ last.args = <<Str(FileURL(SpacedJs)), Str(SegData)>>
  /\ stackTraceLimit = 0
  /\ last.ret = Str(<<"/", "p", "/", "d", "a", "t", "a">>)

\* the plain path of the caller's frame
CallerPath ==
  IF StartsWith(CallerFrame.file.s, FilePrefix)
    THEN fileURLToPath(CallerFrame.file.s).s
    ELSE CallerFrame.file.s
AutoResult(op, args) ==
  IF op \in {"file", "__filename"} THEN Str(CallerPath)
  ELSE IF op = "__dirname" \/ args = <<>> THEN Str(PathDirname(CallerPath))
  ELSE PathJoin(<<Str(PathDirname(CallerPath))>> \o args)

\* C4: without an explicit reference, dir, file, __dirname and __filename
\* report the file of the newest application frame, the one that invoked
\* the public method, whatever lies below it, and never PathMix's own
\* frames: file and __filename give that file, __dirname its directory, dir
\* join(dirname(callerFile), ...segments); when that frame has no usable
\* name the call fails instead.  dir('data', 'seed.json') from
\* /project/src/utils.js gives /project/src/data/seed.json.
C4_ReportsImmediateCaller ==
  AutoCall =>
    /\ ~NoUsableName => last.ret = AutoResult(last.op, last.args)
    /\ NoUsableName => last.ret.t = "throw"
    /\ last.inspected
    /\ ( /\ last.op = "dir" /\ ~NoUsableName
         /\ CallerFrame.file \in {Str(UtilsJs), Str(FileURL(UtilsJs))}
         /\ last.args = <<Str(SegData), Str(SegSeed)>> ) =>
         last.ret = Str(<<"/", "p", "r", "o", "j", "e", "c", "t", "/", "s", "r", "c", "/",
                          "d", "a", "t", "a", "/", "s", "e", "e", "d", ".", "j", "s", "o", "n">>)
C4_Witness ==
  /\ last.op = "dir" /\ last.args = <<Str(SegData), Str(SegSeed)>>
  /\ Len(callStack) = MaxDepth
  /\ CallerFrame.file = Str(UtilsJs)
  /\ callStack[2].file = Str(FileURL(SpacedJs))
  /\ stackTraceLimit > 0
  /\ last.ret = Str(<<"/", "p", "r", "o", "j", "e", "c", "t", "/", "s", "r", "c", "/",
                      "d", "a", "t", "a", "/", "s", "e", "e", "d", ".", "j", "s", "o", "n">>)

\* C5: every path-producing method either returns an absolute path string
\* or fails with an error; never a relative path, null, undefined or an
\* empty string.
C5_AbsoluteOrError ==
  last.op # "none" =>
    \/ last.ret.t = "throw"
    \/ (last.ret.t = "string" /\ Len(last.ret.s) > 0 /\ last.ret.s[1] = "/")

\* same value, or the same kind of failure
SameOutcome(a, b) == a.t = b.t /\ a.s = b.s /\ a.e = b.e
\* the argument list is empty or a single file:// reference
DropInArgs(args) == args = <<>> \/ (Len(args) = 1 /\ ExplicitFirst(args))

\* C10: with no argument or a single file:// reference, __dirname returns
\* what dir returns with no extra segment and fails where dir fails, and
\* __filename returns what file returns and fails where file fails.
C10_DropInEquivalents ==
  /\ (last.op = "__dirname" /\ DropInArgs(last.args)) =>
       SameOutcome(last.ret, dir(last.args, callStack, stackTraceLimit, prepareStackTrace).ret)
  /\ (last.op = "__filename" /\ DropInArgs(last.args)) =>
       SameOutcome(last.ret, file(last.args, callStack, stackTraceLimit, prepareStackTrace).ret)
C10_Witness ==
  /\ last.op = "__dirname" /\ last.args = <<>>
  /\ stackTraceLimit > 0
  /\ CallerFrame.file = Str(FileURL(SpacedJs))
  /\ last.ret = Str(<<"/", "p">>)

\* join(base, ...segments), or base itself when there is no segment
BaseResult(base, segments) ==
  IF segments = <<>> THEN Str(base) ELSE PathJoin(<<Str(base)>> \o segments)

\* C6: home(...S) is the home directory joined with S, and home() is the
\* home directory exactly as the operating system reports it; likewise cwd
\* for the working directory and tmp for the temp directory.
C6_BaseJoined ==
  /\ last.op = "home" => last.ret = BaseResult(osHomedir, last.args)
  /\ last.op = "cwd" => last.ret = BaseResult(processCwd, last.args)
  /\ last.op = "tmp" => last.ret = BaseResult(osTmpdir, last.args)
  /\ (last.op = "home" /\ last.args = <<Str(SegData)>>
        /\ osHomedir = <<"/", "h", "o", "m", "e", "/", "u", "s", "e", "r">>) =>
       last.ret = Str(<<"/", "h", "o", "m", "e", "/", "u", "s", "e", "r", "/", "d", "a", "t", "a">>)
C6_Witness ==
  /\ last.op = "home" /\ last.args = <<>>
  /\ osHomedir = <<"/", "h", "o", "m", "e", "/", "/", "u", "s", "e", "r">>
  /\ last.ret = Str(<<"/", "h", "o", "m", "e", "/", "/", "u", "s", "e", "r">>)

\* resolve(homeDir + '/X')
ResolveUnderHome(x) ==
  resolve(<<Str(osHomedir \o <<"/">> \o x)>>, osHomedir, processCwd, prepareStackTrace).ret

\* C7: for every suffix X, resolve('~/X') and resolve('$HOME/X') return
\* what resolve(homeDir + '/X') returns.
C7_ShorthandsAgree ==
  \A x \in Suffixes :
    (last.op = "resolve" /\ last.args \in {<<Str(Tilde \o <<"/">> \o x)>>,
                                          <<Str(HomeToken \o <<"/">> \o x)>>}) =>
      last.ret = ResolveUnderHome(x)

\* C7, its last clause: that common result also equals join(homeDir, X).
C7_EqualsJoin ==
  \A x \in Suffixes :
    (last.op = "resolve" /\ last.args \in {<<Str(Tilde \o <<"/">> \o x)>>,
                                          <<Str(HomeToken \o <<"/">> \o x)>>}) =>
      last.ret = PathJoin(<<Str(osHomedir), Str(x)>>)

\* a segment with its one leading token replaced by the home directory and
\* the rest kept character for character
PrefixExpanded(v) ==
  IF v.t # "string" THEN v
  ELSE IF Len(v.s) >= 5 /\ SubSeq(v.s, 1, 5) = <<"$", "H", "O", "M", "E">>
    THEN Str(osHomedir \o SubSeq(v.s, 6, Len(v.s)))
  ELSE IF Len(v.s) >= 1 /\ v.s[1] = "~"
    THEN Str(osHomedir \o SubSeq(v.s, 2, Len(v.s)))
  ELSE v

\* C8: a segment that begins with '~' or '$HOME' has that one leading token
\* replaced by the home directory and its remainder kept character for
\* character; any other segment is unchanged; resolve expands each segment
\* on its own and resolves the expanded segments.
C8_PrefixSubstitution ==
  last.op = "resolve" =>
    /\ \A i \in 1..Len(last.args) :
         expandTokens(last.args[i], osHomedir) = PrefixExpanded(last.args[i])
    /\ last.ret = PathResolve([i \in 1..Len(last.args) |-> PrefixExpanded(last.args[i])],
                              processCwd)

\* the segments of the last resolve call after token expansion
Expanded == [i \in 1..Len(last.args) |-> expandTokens(last.args[i], osHomedir)]
\* the positions of the absolute ones
AbsoluteAt ==
  {i \in 1..Len(last.args) :
     Expanded[i].t = "string" /\ Len(Expanded[i].s) > 0 /\ Expanded[i].s[1] = "/"}
Least(S) == CHOOSE i \in S : \A j \in S : i <= j
Greatest(S) == CHOOSE i \in S : \A j \in S : i >= j
\* the absolute path built from expanded segment i and the segments after
\* it, normalized for "." and ".."
BuiltFrom(i) ==
  IF \E j \in i..Len(last.args) : Expanded[j].t # "string"
    THEN Throw("ERR_INVALID_ARG_TYPE", <<>>)
    ELSE Str(<<"/">> \o NormalizeString(
               JoinRaw([k \in 1..(Len(last.args) - i + 1) |-> Expanded[i + k - 1].s]), FALSE))

\* C9 as claimed: when several expanded segments are absolute, the result of
\* resolve is built from the leftmost absolute one and the segments after it.
C9_LeftmostAbsoluteWins ==
  (last.op = "resolve" /\ Cardinality(AbsoluteAt) >= 2) =>
    last.ret = BuiltFrom(Least(AbsoluteAt))

\* C9, amended: when several expanded segments are absolute, the result of
\* resolve is built from the rightmost absolute one and the segments after
\* it; the segments to its left are not read.
C9_RightmostAbsoluteWins ==
  (last.op = "resolve" /\ Cardinality(AbsoluteAt) >= 2) =>
    last.ret = BuiltFrom(Greatest(AbsoluteAt))
C9_Witness ==
  /\ last.op = "resolve"
  /\ last.args = <<Str(<<"/", "e", "t", "c">>), Str(<<"~", "/", "f", "o", "o">>)>>
  /\ osHomedir = <<"/", "h", "o", "m", "e", "/", "u", "s", "e", "r">>
  /\ last.ret = Str(<<"/", "h", "o", "m", "e", "/", "u", "s", "e", "r", "/", "f", "o", "o">>)

\* C11: dir, file, __dirname and __filename take the explicit path exactly
\* when the first argument is a string starting with "file://", and the
\* stack read exactly otherwise (a plain path, a URL of another scheme,
\* "file:/..." and a non-string all lead to the stack read).  After the
\* stack read, dir joins every argument, the first included, onto the
\* caller's directory, while file, __dirname and __filename give what they
\* give without arguments.  A reference the decoder rejects fails with the
\* decoder's error and no stack read; a stack read without a usable name
\* fails with the detection Error, whatever the arguments are.
C11_SelectedByFirstArgument ==
  last.op \in LocateOps =>
    /\ last.inspected <=> ~ExplicitFirst(last.args)
    /\ (ExplicitFirst(last.args) /\ Decoded(last.args).t = "throw") =>
         last.ret = Decoded(last.args)
    /\ (~ExplicitFirst(last.args) /\ NoUsableName) =>
         (last.ret.t = "throw" /\ last.ret.e = "Error" /\ last.ret.m[1] = MethodName(last.op))
    /\ (~ExplicitFirst(last.args) /\ ~NoUsableName) =>
         last.ret = AutoResult(last.op, IF last.op = "dir" THEN last.args ELSE <<>>)
C11_Witness ==
  /\ last.op = "dir"
  /\ last.args = <<Str(OneSlashRef), Str(SegData)>>
  /\ CallerFrame.file = Str(UtilsJs)
  /\ last.inspected
  /\ last.ret = Str(<<"/", "p", "r", "o", "j", "e", "c", "t", "/", "s", "r", "c", "/",
                      "f", "i", "l", "e", ":", "/", "x", ".", "j", "s", "/", "d", "a", "t", "a">>)

\* C12: no step of the program changes Error.prepareStackTrace: a call
\* assigns it only inside the stack read, first the structured hook and then
\* the value it held before, whether the call then returns or throws; and a
\* call made again with the same arguments from the same call site in the
\* same environment gives the result of the first.
C12_NoRetainedState ==
  [][ /\ prepareStackTrace' = prepareStackTrace
      /\ last'.hooks \in {<<>>, <<Structured, prepareStackTrace>>}
      /\ (last'.hooks # <<>>) => last'.inspected
      /\ ( /\ last.op # "none" /\ last'.op = last.op /\ last'.args = last.args
           /\ callStack' = callStack /\ env' = env ) =>
           last'.ret = last.ret
    ]_vars
C12_Witness ==
  /\ last.op = "file" /\ last.args = <<>>
  /\ last.inspected
  /\ last.ret.t = "throw"
  /\ last.hooks = <<Structured, "userHook">>
  /\ prepareStackTrace = "userHook"

====
